---- MODULE Spec2Model ----
(***************************************************************************)
(* The order / payment / notification choreography of the coffee shop      *)
(* microservices: the order service (src/unnamed/part_000), the payment    *)
(* service (second half of src/services/notification-service/server.js)    *)
(* and the part of the product service the order service reads.            *)
(*                                                                         *)
(* Every handler is an async function: each `await` on a store or on a     *)
(* remote call is a point where other requests run, so a handler is one    *)
(* action per stretch of code between two awaits.  The document store is   *)
(* reliable (a single findByIdAndUpdate or save is one atomic write); the  *)
(* network between the services is not (a remote call may fail).  Money is *)
(* in integer cents.  Timestamps (createdAt, updatedAt) are left out,      *)
(* completedAt is kept as set / not set.                                   *)
(*                                                                         *)
(* A handler reads and writes only the document its path names, so the     *)
(* model follows one order (the first one created) and the payments made   *)
(* for it or for an order id that does not exist.                          *)
(***************************************************************************)
EXTENDS Integers, Sequences, FiniteSets, TLC

\* ------------------------------------------------------------------ bounds
MaxPayments == 2   \* payments that may be created
MaxItems    == 2   \* line items of one create-order request
MaxInFlight == 2   \* handlers of one kind suspended on the same record

\* ------------------------------------------------------------ input domains
Users          == {"u1", "u2"}
Products       == {1, 2}               \* ids the catalog holds
ReqProductIds  == {1, 2, 3}            \* 3 is an id no product has
Quantities     == {1, 2}
Prices         == {299, 449}           \* cents; the seed's Espresso and Latte
OrderIds       == {1}                  \* the model follows the first order created
ReqOrderIds    == OrderIds \cup {2}     \* 2 is an id no order has
ReqPaymentIds  == 1..(MaxPayments + 1)

Null == "null"

\* OrderSchema.status.enum, OrderSchema.paymentStatus.enum
OrderStatusEnum   == {"pending", "confirmed", "preparing", "ready", "completed", "cancelled"}
PaymentStatusEnum == {"pending", "completed", "failed", "refunded"}

RECURSIVE SeqsUpTo(_, _)
SeqsUpTo(S, n) ==
  IF n = 0 THEN {<<>>}
  ELSE LET shorter == SeqsUpTo(S, n - 1)
       IN  shorter \cup {Append(s, x) : s \in {t \in shorter : Len(t) = n - 1}, x \in S}

ReqItems     == [productId : ReqProductIds, quantity : Quantities]
ReqItemLists == SeqsUpTo(ReqItems, MaxItems)

VARIABLES
  catalog,     \* product service: [Products -> [price, available]]
  orders,      \* order service store: sequence of Order documents, _id = index
  payments,    \* payment service store: sequence of Payment documents, _id = index
  create,      \* the create-order handler in progress (its locals)
  cancelling,  \* per order: cancel handlers between findById and save
  confirming,  \* per order: payment-callback handlers between findByIdAndUpdate and save
  refunding,   \* per payment: refund handlers between findById and save
  refundCb,    \* per payment: refund handlers awaiting their callback to the order service
  timer,       \* per payment: settlement timer: "armed", the status it is reporting, or "done"
  triggers,    \* payment triggers in flight from the order service: set of request bodies
  out          \* what the last step answered and emitted

vars == <<catalog, orders, payments, create, cancelling, confirming,
          refunding, refundCb, timer, triggers, out>>

\* out: the endpoint that answered, the id in its path (for a 201 the new id),
\* the HTTP status, the error of the body, the notifications posted to the
\* notification service by that step
NoOut == [op |-> "none", id |-> 0, code |-> 0, error |-> "", notif |-> <<>>]
Reply(op, id, code) ==
  [op |-> op, id |-> id, code |-> code, error |-> "", notif |-> <<>>]
Fail(op, id, code, error) ==
  [op |-> op, id |-> id, code |-> code, error |-> error, notif |-> <<>>]
ReplyAnd(op, id, code, note) ==
  [op |-> op, id |-> id, code |-> code, error |-> "", notif |-> <<note>>]

\* ------------------------------------------------------ product service
\* POST /api/products/seed: Espresso 2.99, Latte 4.49, both available
SeedCatalog == [p \in Products |->
                  [price |-> IF p = 1 THEN 299 ELSE 449, available |-> TRUE]]

\* GET /api/products/:id as seen through axios.get: a body, or a throw (404)
ProductFound(productId) == productId \in Products

\* a create that never takes the unavailable branch
UnavailableNever(product) == FALSE

\* if (!product.available)
Unavailable(product) == ~product.available

\* PUT /api/products/:id with a new price
UpdateProduct(p, price) ==
  /\ catalog[p].price # price
  /\ catalog' = [catalog EXCEPT ![p].price = price]
  /\ out' = NoOut
  /\ UNCHANGED <<orders, payments, create, cancelling, confirming,
                 refunding, refundCb, timer, triggers>>

\* PATCH /api/products/:id/availability
SetAvailability(p, available) ==
  /\ catalog[p].available # available
  /\ catalog' = [catalog EXCEPT ![p].available = available]
  /\ out' = NoOut
  /\ UNCHANGED <<orders, payments, create, cancelling, confirming,
                 refunding, refundCb, timer, triggers>>

\* -------------------------------------------------------- order service
OrderExists(id) == id \in 1..Len(orders)

\* the loop body's push: the product's id and price, the request's quantity
OrderItem(productId, product, quantity) ==
  [productId |-> productId, quantity |-> quantity, price |-> product.price]

\* a total that forgets the quantity
AddToTotalOnce(totalAmount, product, quantity) == totalAmount + product.price

\* totalAmount += product.price * item.quantity
AddToTotal(totalAmount, product, quantity) == totalAmount + product.price * quantity

\* new Order({userId, items, totalAmount, ...}) with the schema's defaults
NewOrder(userId, orderItems, totalAmount) ==
  [userId |-> userId, items |-> orderItems, totalAmount |-> totalAmount,
   status |-> "pending", paymentStatus |-> "pending"]

\* a trigger that leaves the amount out
PaymentRequestNoAmount(orderId, totalAmount, userId) ==
  [orderId |-> orderId, amount |-> 0, userId |-> userId]

\* the body of the fire-and-forget POST /api/payments
PaymentRequest(orderId, totalAmount, userId) ==
  [orderId |-> orderId, amount |-> totalAmount, userId |-> userId]

IdleCreate == [pc |-> "idle", userId |-> Null, todo |-> <<>>,
               orderItems |-> <<>>, totalAmount |-> 0]

\* POST /api/orders, up to the first catalog lookup
CreateOrderStart(userId, items) ==
  /\ create.pc = "idle"
  /\ Len(orders) < Cardinality(OrderIds)
  /\ create' = [pc |-> IF items = <<>> THEN "save" ELSE "lookup", userId |-> userId,
                todo |-> items, orderItems |-> <<>>, totalAmount |-> 0]
  /\ out' = NoOut
  /\ UNCHANGED <<catalog, orders, payments, cancelling, confirming,
                 refunding, refundCb, timer, triggers>>

\* POST /api/orders: one turn of the loop, the lookup answered or failed
CreateOrderLookup(reachable) ==
  /\ create.pc = "lookup"
  /\ LET item == Head(create.todo)
         rest == Tail(create.todo)
     IN  IF ~reachable \/ ~ProductFound(item.productId)
           THEN /\ create' = IdleCreate
                /\ out' = Fail("create", 0, 400, "Invalid product")
         ELSE IF Unavailable(catalog[item.productId])
           THEN /\ create' = IdleCreate
                /\ out' = Fail("create", 0, 400, "not available")
         ELSE /\ create' = [create EXCEPT
                   !.pc = IF rest = <<>> THEN "save" ELSE "lookup",
                   !.todo = rest,
                   !.orderItems = Append(@, OrderItem(item.productId,
                                     catalog[item.productId], item.quantity)),
                   !.totalAmount = AddToTotal(@, catalog[item.productId], item.quantity)]
              /\ out' = NoOut
  /\ UNCHANGED <<catalog, orders, payments, cancelling, confirming,
                 refunding, refundCb, timer, triggers>>

\* POST /api/orders: order.save(), the payment trigger, the 201
CreateOrderSave ==
  /\ create.pc = "save"
  /\ LET id == Len(orders) + 1
     IN  /\ orders' = Append(orders, NewOrder(create.userId, create.orderItems,
                                              create.totalAmount))
         /\ triggers' = triggers \cup
                          {PaymentRequest(id, create.totalAmount, create.userId)}
         /\ out' = Reply("create", id, 201)
  /\ create' = IdleCreate
  /\ UNCHANGED <<catalog, payments, cancelling, confirming, refunding, refundCb, timer>>

\* the notification of PATCH /api/orders/:id/status
StatusNotification(order, id, status) ==
  [userId |-> order.userId, type |-> "order_update", orderId |-> id, names |-> status]

\* the notification of PATCH /api/orders/:id/payment
PaymentNotification(order, id) ==
  [userId |-> order.userId, type |-> "payment_success", orderId |-> id, names |-> Null]

\* a status update without the test of the document it got back
UpdateOrderStatusNoTest(id, status) ==
  /\ IF ~OrderExists(id)
       THEN /\ out' = Fail("status", id, 400, "Cannot read properties of null")
            /\ UNCHANGED orders
       ELSE /\ orders' = [orders EXCEPT ![id].status = status]
            /\ out' = ReplyAnd("status", id, 200,
                               [userId |-> orders[id].userId, type |-> "order_update",
                                orderId |-> id, names |-> status])
  /\ UNCHANGED <<catalog, payments, create, cancelling, confirming,
                 refunding, refundCb, timer, triggers>>

\* a status update with a transition guard: nothing leaves 'completed'
UpdateOrderStatusGuarded(id, status) ==
  /\ IF ~OrderExists(id)
       THEN /\ out' = Fail("status", id, 404, "Order not found")
            /\ UNCHANGED orders
     ELSE IF orders[id].status = "completed"
       THEN /\ out' = Fail("status", id, 400, "Invalid transition")
            /\ UNCHANGED orders
     ELSE /\ orders' = [orders EXCEPT ![id].status = status]
          /\ out' = ReplyAnd("status", id, 200,
                             [userId |-> orders[id].userId, type |-> "order_update",
                              orderId |-> id, names |-> status])
  /\ UNCHANGED <<catalog, payments, create, cancelling, confirming,
                 refunding, refundCb, timer, triggers>>

\* PATCH /api/orders/:id/status: findByIdAndUpdate, the notification, the answer
UpdateOrderStatus(id, status) ==
  /\ IF ~OrderExists(id)
       THEN /\ out' = Fail("status", id, 404, "Order not found")
            /\ UNCHANGED orders
       ELSE /\ orders' = [orders EXCEPT ![id].status = status]
            /\ out' = ReplyAnd("status", id, 200,
                               StatusNotification(orders[id], id, status))
  /\ UNCHANGED <<catalog, payments, create, cancelling, confirming,
                 refunding, refundCb, timer, triggers>>

\* a test that looks at the order's status only
NeedsConfirmAnyPayment(paymentStatus, status) == status = "pending"

\* if (paymentStatus === 'completed' && order.status === 'pending')
NeedsConfirm(paymentStatus, status) == paymentStatus = "completed" /\ status = "pending"

\* PATCH /api/orders/:id/payment up to the end of findByIdAndUpdate and the test
\* on the document it returned
PatchPayment(id, paymentStatus) ==
  IF ~OrderExists(id)
    THEN UNCHANGED <<orders, confirming>>
  ELSE /\ orders' = [orders EXCEPT ![id].paymentStatus = paymentStatus]
       /\ IF NeedsConfirm(paymentStatus, orders[id].status)
            THEN confirming' = [confirming EXCEPT ![id] = @ + 1]
            ELSE UNCHANGED confirming

\* what PATCH /api/orders/:id/payment answers at that point: 404, 200, or
\* nothing yet (the save of the confirmed status is still to come)
PatchReply(id, paymentStatus) ==
  IF ~OrderExists(id) THEN Fail("payment", id, 404, "Order not found")
  ELSE IF NeedsConfirm(paymentStatus, orders[id].status) THEN NoOut
  ELSE Reply("payment", id, 200)

CanPatch(id) == OrderExists(id) => confirming[id] < MaxInFlight

\* PATCH /api/orders/:id/payment sent by any client of the order service
UpdatePaymentStatus(id, paymentStatus) ==
  /\ CanPatch(id)
  /\ PatchPayment(id, paymentStatus)
  /\ out' = PatchReply(id, paymentStatus)
  /\ UNCHANGED <<catalog, payments, create, cancelling,
                 refunding, refundCb, timer, triggers>>

\* PATCH /api/orders/:id/payment: order.status = 'confirmed'; order.save(); notify
ConfirmOrder(id) ==
  /\ confirming[id] > 0
  /\ confirming' = [confirming EXCEPT ![id] = @ - 1]
  /\ orders' = [orders EXCEPT ![id].status = "confirmed"]
  /\ out' = ReplyAnd("payment", id, 200, PaymentNotification(orders[id], id))
  /\ UNCHANGED <<catalog, payments, create, cancelling,
                 refunding, refundCb, timer, triggers>>

\* a guard that forgets 'ready'
CanCancelReady(status) == status \notin {"preparing", "completed"}

\* if (['preparing', 'ready', 'completed'].includes(order.status)) -> 400
CanCancel(status) == status \notin {"preparing", "ready", "completed"}

\* POST /api/orders/:id/cancel: findById and the two early returns
CancelOrderRead(id) ==
  /\ IF ~OrderExists(id)
       THEN /\ out' = Fail("cancel", id, 404, "Order not found")
            /\ UNCHANGED cancelling
     ELSE IF ~CanCancel(orders[id].status)
       THEN /\ out' = Fail("cancel", id, 400, "Cannot cancel order in current status")
            /\ UNCHANGED cancelling
     ELSE /\ cancelling[id] < MaxInFlight
          /\ cancelling' = [cancelling EXCEPT ![id] = @ + 1]
          /\ out' = NoOut
  /\ UNCHANGED <<catalog, orders, payments, create, confirming,
                 refunding, refundCb, timer, triggers>>

\* a cancel that also marks the order's payment as refunded
CancelOrderSaveRefunds(id) ==
  /\ cancelling[id] > 0
  /\ cancelling' = [cancelling EXCEPT ![id] = @ - 1]
  /\ orders' = [orders EXCEPT ![id].status = "cancelled",
                              ![id].paymentStatus = "refunded"]
  /\ out' = Reply("cancel", id, 200)
  /\ UNCHANGED <<catalog, payments, create, confirming,
                 refunding, refundCb, timer, triggers>>

\* POST /api/orders/:id/cancel: order.status = 'cancelled'; order.save()
CancelOrderSave(id) ==
  /\ cancelling[id] > 0
  /\ cancelling' = [cancelling EXCEPT ![id] = @ - 1]
  /\ orders' = [orders EXCEPT ![id].status = "cancelled"]
  /\ out' = Reply("cancel", id, 200)
  /\ UNCHANGED <<catalog, payments, create, confirming,
                 refunding, refundCb, timer, triggers>>

\* ------------------------------------------------------ payment service
PaymentExists(id) == id \in 1..Len(payments)

\* new Payment({orderId, userId, amount, paymentMethod, status: 'processing'})
NewPayment(body) ==
  [orderId |-> body.orderId, userId |-> body.userId, amount |-> body.amount,
   status |-> "processing", transactionId |-> Null, failureReason |-> Null,
   completedAt |-> Null]

\* a success that records no transaction reference
ResolvedNoReference(payment, isSuccess) ==
  IF isSuccess
    THEN [payment EXCEPT !.status = "completed", !.completedAt = "set"]
    ELSE [payment EXCEPT !.status = "failed",
                         !.failureReason = "Insufficient funds"]

\* the timer's if (isSuccess) ... else ...
Resolved(payment, isSuccess) ==
  IF isSuccess
    THEN [payment EXCEPT !.status = "completed", !.transactionId = "TXN",
                         !.completedAt = "set"]
    ELSE [payment EXCEPT !.status = "failed",
                         !.failureReason = "Insufficient funds"]

\* POST /api/payments: payment.save(), setTimeout, the 201
ProcessPayment(body) ==
  /\ Len(payments) < MaxPayments
  /\ payments' = Append(payments, NewPayment(body))
  /\ timer' = [timer EXCEPT ![Len(payments) + 1] = "armed"]
  /\ out' = Reply("pay", Len(payments) + 1, 201)

\* POST /api/payments sent by any client of the payment service
DirectPayment(orderId, userId, amount) ==
  /\ ProcessPayment(PaymentRequest(orderId, amount, userId))
  /\ UNCHANGED <<catalog, orders, create, cancelling, confirming,
                 refunding, refundCb, triggers>>

\* the order service's trigger reaches POST /api/payments
TriggerDelivered(body) ==
  /\ body \in triggers
  /\ triggers' = triggers \ {body}
  /\ ProcessPayment(body)
  /\ UNCHANGED <<catalog, orders, create, cancelling, confirming, refunding, refundCb>>

\* a failed trigger that rolls the order back
TriggerLostRollsBack(body) ==
  /\ body \in triggers
  /\ triggers' = triggers \ {body}
  /\ orders' = SubSeq(orders, 1, body.orderId - 1)
  /\ out' = NoOut
  /\ UNCHANGED <<catalog, payments, create, cancelling, confirming,
                 refunding, refundCb, timer>>

\* the order service's trigger fails: .catch(err => console.error(...))
TriggerLost(body) ==
  /\ body \in triggers
  /\ triggers' = triggers \ {body}
  /\ out' = NoOut
  /\ UNCHANGED <<catalog, orders, payments, create, cancelling, confirming,
                 refunding, refundCb, timer>>

\* a timer that reports the outcome before it has saved it
SettleReportsFirst(id, isSuccess) ==
  /\ PaymentExists(id)
  /\ timer[id] = "armed"
  /\ timer' = [timer EXCEPT ![id] = IF isSuccess THEN "completed" ELSE "failed"]
  /\ out' = NoOut
  /\ UNCHANGED <<catalog, orders, payments, create, cancelling, confirming,
                 refunding, refundCb, triggers>>

\* a timer that stays armed after it fired
SettleAgain(id, isSuccess) ==
  /\ id \in 1..Len(payments)
  /\ timer[id] = "armed"
  /\ payments' = [payments EXCEPT ![id] =
                    IF isSuccess
                      THEN [@ EXCEPT !.status = "completed", !.transactionId = "TXN",
                                     !.completedAt = "set"]
                      ELSE [@ EXCEPT !.status = "failed",
                                     !.failureReason = "Insufficient funds"]]
  /\ out' = NoOut
  /\ UNCHANGED <<catalog, orders, create, cancelling, confirming,
                 refunding, refundCb, timer, triggers>>

\* the setTimeout callback up to the end of payment.save(); the PATCH to the
\* order service, carrying payment.status, is then in flight
Settle(id, isSuccess) ==
  /\ PaymentExists(id)
  /\ timer[id] = "armed"
  /\ payments' = [payments EXCEPT ![id] = Resolved(@, isSuccess)]
  /\ timer' = [timer EXCEPT ![id] = payments'[id].status]
  /\ out' = NoOut
  /\ UNCHANGED <<catalog, orders, create, cancelling, confirming,
                 refunding, refundCb, triggers>>

CallbackInFlight(id) == PaymentExists(id) /\ timer[id] \in {"completed", "failed"}

\* the settlement's PATCH reaches the order service
SettleCallbackDelivered(id) ==
  /\ CallbackInFlight(id)
  /\ CanPatch(payments[id].orderId)
  /\ PatchPayment(payments[id].orderId, timer[id])
  /\ out' = PatchReply(payments[id].orderId, timer[id])
  /\ timer' = [timer EXCEPT ![id] = "done"]
  /\ UNCHANGED <<catalog, payments, create, cancelling, refunding, refundCb, triggers>>

\* a failed PATCH that arms the timer again, to settle and report once more
SettleCallbackLostRetries(id) ==
  /\ CallbackInFlight(id)
  /\ timer' = [timer EXCEPT ![id] = "armed"]
  /\ out' = NoOut
  /\ UNCHANGED <<catalog, orders, payments, create, cancelling, confirming,
                 refunding, refundCb, triggers>>

\* the settlement's PATCH fails: catch (error) { console.error(...) }
SettleCallbackLost(id) ==
  /\ CallbackInFlight(id)
  /\ timer' = [timer EXCEPT ![id] = "done"]
  /\ out' = NoOut
  /\ UNCHANGED <<catalog, orders, payments, create, cancelling, confirming,
                 refunding, refundCb, triggers>>

\* a guard that only looks whether the payment is settled
CanRefundSettled(status) == status # "processing"

\* a guard that lets a refunded payment be refunded again
CanRefundAgain(status) == status \in {"completed", "refunded"}

\* if (payment.status !== 'completed') -> 400
CanRefund(status) == status = "completed"

\* POST /api/payments/:id/refund: findById and the two early returns
RefundRead(id) ==
  /\ IF ~PaymentExists(id)
       THEN /\ out' = Fail("refund", id, 404, "Payment not found")
            /\ UNCHANGED refunding
     ELSE IF ~CanRefund(payments[id].status)
       THEN /\ out' = Fail("refund", id, 400, "Can only refund completed payments")
            /\ UNCHANGED refunding
     ELSE /\ refunding[id] + refundCb[id] < MaxInFlight
          /\ refunding' = [refunding EXCEPT ![id] = @ + 1]
          /\ out' = NoOut
  /\ UNCHANGED <<catalog, orders, payments, create, cancelling, confirming,
                 refundCb, timer, triggers>>

\* POST /api/payments/:id/refund: payment.status = 'refunded'; payment.save();
\* the PATCH to the order service is then in flight
RefundSave(id) ==
  /\ refunding[id] > 0
  /\ refunding' = [refunding EXCEPT ![id] = @ - 1]
  /\ refundCb' = [refundCb EXCEPT ![id] = @ + 1]
  /\ payments' = [payments EXCEPT ![id].status = "refunded"]
  /\ out' = NoOut
  /\ UNCHANGED <<catalog, orders, create, cancelling, confirming, timer, triggers>>

\* the refund's PATCH reaches the order service; axios throws on its 404
RefundCallbackDelivered(id) ==
  /\ refundCb[id] > 0
  /\ CanPatch(payments[id].orderId)
  /\ refundCb' = [refundCb EXCEPT ![id] = @ - 1]
  /\ PatchPayment(payments[id].orderId, "refunded")
  /\ out' = IF OrderExists(payments[id].orderId)
              THEN Reply("refund", id, 200)
              ELSE Fail("refund", id, 400, "Request failed")
  /\ UNCHANGED <<catalog, payments, create, cancelling, refunding, timer, triggers>>

\* the refund's PATCH fails: catch (error) -> 400
RefundCallbackLost(id) ==
  /\ refundCb[id] > 0
  /\ refundCb' = [refundCb EXCEPT ![id] = @ - 1]
  /\ out' = Fail("refund", id, 400, "Request failed")
  /\ UNCHANGED <<catalog, orders, payments, create, cancelling, confirming,
                 refunding, timer, triggers>>

\* ------------------------------------------------------------ the system
DirectAmounts == {299}
OneUser   == {"u1"}
FewItemLists  == {<<[productId |-> 1, quantity |-> 2], [productId |-> 2, quantity |-> 1]>>}

Init ==
  /\ catalog = SeedCatalog
  /\ orders = <<>>
  /\ payments = <<>>
  /\ create = IdleCreate
  /\ cancelling = [id \in OrderIds |-> 0]
  /\ confirming = [id \in OrderIds |-> 0]
  /\ refunding = [id \in 1..MaxPayments |-> 0]
  /\ refundCb = [id \in 1..MaxPayments |-> 0]
  /\ timer = [id \in 1..MaxPayments |-> "idle"]
  /\ triggers = {}
  /\ out = NoOut

\* requests to the product service
CatalogRequests ==
  \/ \E p \in Products, price \in Prices : UpdateProduct(p, price)
  \/ \E p \in Products, available \in BOOLEAN : SetAvailability(p, available)

\* POST /api/orders with a body drawn from users and itemLists
CreateRequests(users, itemLists) ==
  \/ \E userId \in users, items \in itemLists : CreateOrderStart(userId, items)
  \/ \E reachable \in BOOLEAN : CreateOrderLookup(reachable)
  \/ CreateOrderSave

\* the operator's and the customer's requests on an order
StatusRequests ==
  \/ \E id \in ReqOrderIds, status \in OrderStatusEnum : UpdateOrderStatus(id, status)
  \/ \E id \in ReqOrderIds : CancelOrderRead(id)
  \/ \E id \in OrderIds : CancelOrderSave(id)

\* PATCH /api/orders/:id/payment from any client
CallbackRequests ==
  \E id \in ReqOrderIds, ps \in PaymentStatusEnum : UpdatePaymentStatus(id, ps)

ConfirmSteps == \E id \in OrderIds : ConfirmOrder(id)

\* the order service's payment trigger on the network
TriggerSteps ==
  \/ \E body \in triggers : TriggerDelivered(body)
  \/ \E body \in triggers : TriggerLost(body)

\* POST /api/payments from any client, for an order id among orderIds
DirectPaymentRequests(orderIds) ==
  \E orderId \in orderIds, userId \in OneUser, amount \in DirectAmounts :
     DirectPayment(orderId, userId, amount)

\* the settlement timers and their callbacks on the network
SettlementSteps ==
  \/ \E id \in 1..MaxPayments, isSuccess \in BOOLEAN : Settle(id, isSuccess)
  \/ \E id \in 1..MaxPayments : SettleCallbackDelivered(id)
  \/ \E id \in 1..MaxPayments : SettleCallbackLost(id)

\* POST /api/payments/:id/refund from any client, and its callback on the network
RefundSteps ==
  \/ \E id \in ReqPaymentIds : RefundRead(id)
  \/ \E id \in 1..MaxPayments : RefundSave(id)
  \/ \E id \in 1..MaxPayments : RefundCallbackDelivered(id)
  \/ \E id \in 1..MaxPayments : RefundCallbackLost(id)

\* The system over the seeded catalog: every endpoint of the order service
\* under arbitrary clients, the payment service fed by the order service's
\* trigger, its refund endpoint under arbitrary clients.
Next == CreateRequests(Users, FewItemLists) \/ StatusRequests \/ CallbackRequests
          \/ ConfirmSteps \/ TriggerSteps \/ SettlementSteps \/ RefundSteps
Spec == Init /\ [][Next]_vars

\* The order service under arbitrary clients over a changing catalog (the
\* payment service's callbacks are among what a client of PATCH .../payment
\* may send; the payment trigger stays on the wire).
CatalogNext == CatalogRequests \/ CreateRequests(OneUser, FewItemLists) \/ StatusRequests
                 \/ CallbackRequests \/ ConfirmSteps
CatalogSpec == Init /\ [][CatalogNext]_vars

\* Order creation over a changing catalog, for every request body.
CreateNext == CatalogRequests \/ CreateRequests(Users, ReqItemLists) \/ TriggerSteps
CreateSpec == Init /\ [][CreateNext]_vars

\* The payment service under arbitrary clients of all its endpoints.
PaymentNext == DirectPaymentRequests(OrderIds) \/ SettlementSteps \/ RefundSteps
PaymentSpec == Init /\ [][PaymentNext]_vars

\* The settlement timer of a payment that was armed fires.
FairPaymentSpec ==
  PaymentSpec /\ \A id \in 1..MaxPayments : WF_vars(\E isSuccess \in BOOLEAN : Settle(id, isSuccess))

\* Orders created and paid through the trigger, next to clients that call
\* POST /api/payments themselves.
DirectNext == CreateRequests(OneUser, FewItemLists) \/ TriggerSteps
                \/ DirectPaymentRequests(OrderIds) \/ SettlementSteps
                \/ ConfirmSteps \/ RefundSteps
DirectSpec == Init /\ [][DirectNext]_vars

\* no handler of the order service is suspended on an await
Quiescent ==
  /\ create.pc = "idle"
  /\ \A id \in OrderIds : cancelling[id] = 0 /\ confirming[id] = 0

\* The order service under a client that sends one request at a time and
\* waits for its answer (the payment trigger stays on the wire; the client
\* plays the payment service's callback itself).
SequentialNext ==
  \/ Quiescent /\ \E userId \in Users, items \in FewItemLists : CreateOrderStart(userId, items)
  \/ \E reachable \in BOOLEAN : CreateOrderLookup(reachable)
  \/ CreateOrderSave
  \/ Quiescent /\ \E id \in ReqOrderIds, status \in OrderStatusEnum : UpdateOrderStatus(id, status)
  \/ Quiescent /\ \E id \in ReqOrderIds, ps \in PaymentStatusEnum : UpdatePaymentStatus(id, ps)
  \/ \E id \in OrderIds : ConfirmOrder(id)
  \/ Quiescent /\ \E id \in ReqOrderIds : CancelOrderRead(id)
  \/ \E id \in OrderIds : CancelOrderSave(id)
SequentialSpec == Init /\ [][SequentialNext]_vars

\* The choreography on a network that delivers: orders are created, the
\* trigger reaches the payment service, the timer settles the payment, the
\* callback reaches the order service; no client touches the order.
DeliveredSteps ==
  \/ \E body \in triggers : TriggerDelivered(body)
  \/ \E id \in 1..MaxPayments, isSuccess \in BOOLEAN : Settle(id, isSuccess)
  \/ \E id \in 1..MaxPayments : SettleCallbackDelivered(id)
  \/ \E id \in OrderIds : ConfirmOrder(id)
ChoreographyNext == CreateRequests(Users, ReqItemLists) \/ DeliveredSteps
ChoreographySpec == Init /\ [][ChoreographyNext]_vars

\* Every message on the wire arrives, every armed timer fires, every handler
\* suspended on its save goes on.
FairChoreographySpec == ChoreographySpec /\ WF_vars(DeliveredSteps)

\* The same with an operator who refunds payments, the refund's callback
\* delivered too.
RefundsDelivered ==
  \/ \E id \in ReqPaymentIds : RefundRead(id)
  \/ \E id \in 1..MaxPayments : RefundSave(id)
  \/ \E id \in 1..MaxPayments : RefundCallbackDelivered(id)
RefundChoreographyNext ==
  CreateRequests(Users, FewItemLists) \/ DeliveredSteps \/ RefundsDelivered
RefundChoreographySpec == Init /\ [][RefundChoreographyNext]_vars

\* request bodies of the status and payment endpoints: the schema's values
\* and one value the schema does not have
ReqStatuses        == OrderStatusEnum \cup {"shipped"}
ReqPaymentStatuses == PaymentStatusEnum \cup {"paid"}

\* The status and payment endpoints of the order service under clients that
\* send any body (the payment trigger stays on the wire).
AnyBodyNext ==
  \/ CreateRequests(Users, FewItemLists)
  \/ \E id \in ReqOrderIds, status \in ReqStatuses : UpdateOrderStatus(id, status)
  \/ \E id \in ReqOrderIds, ps \in ReqPaymentStatuses : UpdatePaymentStatus(id, ps)
  \/ ConfirmSteps
AnyBodySpec == Init /\ [][AnyBodyNext]_vars

\* ------------------------------------------------------------ the claims

\* what the catalog lookup of a line item answers when it is reached
LookupAccepts(item) ==
  ProductFound(item.productId) /\ catalog[item.productId].available

CreateRejected ==
  out.op = "create" /\ out.code = 400 /\ out.error \in {"Invalid product", "not available"}

\* C1: a create-order request whose catalog lookup fails (unknown product or
\* lookup error) or answers available=false for the item at hand, at whatever
\* position, is answered 400 and is over; no step of the loop persists an
\* Order, sends a payment trigger or persists a Payment; an Order is persisted
\* only once every item of the request has been accepted.
C1_RejectsWholeOrder ==
  [][/\ (create.pc = "lookup" /\ create' # create) =>
          /\ UNCHANGED <<orders, payments, triggers>>
          /\ \/ /\ LookupAccepts(Head(create.todo))
                /\ create'.pc \in {"lookup", "save"}
                /\ create'.todo = Tail(create.todo)
                /\ Len(create'.orderItems) = Len(create.orderItems) + 1
             \/ /\ create' = IdleCreate
                /\ CreateRejected'
          /\ ~LookupAccepts(Head(create.todo)) => (create' = IdleCreate /\ CreateRejected')
     /\ (orders' # orders /\ create' # create) => (create.pc = "save" /\ create.todo = <<>>)
     /\ (triggers' # triggers /\ create' # create) => create.pc = "save"
    ]_vars

\* a request was rejected for an unavailable product and nothing was persisted
C1_Witness ==
  /\ out = Fail("create", 0, 400, "not available")
  /\ orders = <<>> /\ payments = <<>> /\ triggers = {}

RECURSIVE SumItems(_)
SumItems(items) ==
  IF items = <<>> THEN 0
  ELSE Head(items).quantity * Head(items).price + SumItems(Tail(items))

\* C2: every persisted Order's totalAmount is the sum over its line items of
\* quantity x snapshotted unit price, and no step (catalog change, status
\* update, payment callback, cancel) changes the items or the total of a
\* persisted Order.
C2_TotalIsSumOfSnapshots ==
  /\ [](\A id \in 1..Len(orders) : orders[id].totalAmount = SumItems(orders[id].items))
  /\ [][\A id \in 1..Len(orders) :
          /\ Len(orders') >= Len(orders)
          /\ orders'[id].items = orders[id].items
          /\ orders'[id].totalAmount = orders[id].totalAmount]_vars

\* an order of two items whose first product has changed price since, and whose
\* status, payment status have moved on
C2_Witness ==
  /\ Len(orders) = 1
  /\ Len(orders[1].items) = 2
  /\ orders[1].totalAmount = 1047
  /\ catalog[1].price # orders[1].items[1].price
  /\ orders[1].status = "cancelled"
  /\ orders[1].paymentStatus = "completed"

\* C3 (as claimed): no state is reachable in which a payment callback has
\* written paymentStatus=completed for a pending order while the order's status
\* is still pending.
C3_CompletedAndConfirmedAtOnce ==
  \A id \in 1..Len(orders) :
    confirming[id] > 0 =>
      ~(orders[id].paymentStatus = "completed" /\ orders[id].status = "pending")

\* a step of POST /api/orders/:id/cancel up to its findById: it answered an
\* error, or it went on to the save
CancelReadStep(id) ==
  \/ out'.op = "cancel" /\ out'.id = id /\ out'.code # 200
  \/ cancelling'[id] > cancelling[id]

\* C4: a cancel request that finds the order preparing, ready or completed is
\* answered 400 and changes nothing; one that finds it pending or confirmed is
\* not rejected, and its save sets the status to cancelled and answers 200.
C4_CancelGuard ==
  [][\A id \in 1..Len(orders) :
       /\ (CancelReadStep(id) /\ orders[id].status \in {"preparing", "ready", "completed"}) =>
            /\ out' = Fail("cancel", id, 400, "Cannot cancel order in current status")
            /\ UNCHANGED <<orders, cancelling>>
       /\ (CancelReadStep(id) /\ orders[id].status \in {"pending", "confirmed"}) =>
            /\ cancelling'[id] = cancelling[id] + 1
            /\ out' = NoOut
            /\ UNCHANGED orders
       /\ cancelling'[id] < cancelling[id] =>
            /\ orders' = [orders EXCEPT ![id].status = "cancelled"]
            /\ out' = Reply("cancel", id, 200)
    ]_vars

\* a cancel was refused on an order that is ready
C4_Witness ==
  /\ out = Fail("cancel", 1, 400, "Cannot cancel order in current status")
  /\ orders[1].status = "ready"

\* a step of POST /api/payments/:id/refund up to its findById
RefundReadStep(id) ==
  \/ out'.op = "refund" /\ out'.id = id
       /\ out'.error = "Can only refund completed payments"
  \/ refunding'[id] > refunding[id]

\* C5: a refund request that finds the Payment processing, failed or refunded
\* is answered 400, leaves the Payment as it was and sends no callback; one that
\* finds it completed goes on, and its save sets the status to refunded (so a
\* later request finds it refunded and fails).
C5_RefundGuard ==
  [][\A id \in 1..Len(payments) :
       /\ (RefundReadStep(id) /\ payments[id].status # "completed") =>
            /\ out' = Fail("refund", id, 400, "Can only refund completed payments")
            /\ UNCHANGED <<payments, orders, refunding, refundCb, confirming>>
       /\ (RefundReadStep(id) /\ payments[id].status = "completed") =>
            /\ refunding'[id] = refunding[id] + 1
            /\ UNCHANGED <<payments, orders, refundCb>>
       /\ refunding'[id] < refunding[id] =>
            /\ payments' = [payments EXCEPT ![id].status = "refunded"]
            /\ refundCb'[id] = refundCb[id] + 1
    ]_vars

\* a second refund of a refunded payment was refused
C5_Witness ==
  /\ out = Fail("refund", 1, 400, "Can only refund completed payments")
  /\ payments[1].status = "refunded"

\* C6: under a fair settlement timer every Payment persisted in processing
\* comes to be completed or failed; its timer fires once, and a resolved status
\* never becomes the other one (completed may become refunded, nothing else
\* changes).
C6_ResolvesOnce ==
  /\ \A id \in 1..MaxPayments :
       (PaymentExists(id) /\ payments[id].status = "processing")
         ~> (PaymentExists(id) /\ payments[id].status \in {"completed", "failed"})
  /\ [][\A id \in 1..Len(payments) :
          /\ timer[id] # "armed" => timer'[id] # "armed"
          /\ payments[id].status = "completed" =>
               payments'[id].status \in {"completed", "refunded"}
          /\ payments[id].status = "failed" => payments'[id].status = "failed"
          /\ payments[id].status = "refunded" => payments'[id].status = "refunded"
          /\ payments'[id].status # payments[id].status /\ payments[id].status = "processing"
               => timer[id] = "armed" /\ timer'[id] = payments'[id].status
       ]_vars

\* both payments resolved, one each way
C6_Witness ==
  /\ Len(payments) = 2
  /\ payments[1].status = "failed" /\ timer[1] = "done"
  /\ payments[2].status = "completed" /\ timer[2] = "done"

\* C7: for every persisted Payment, transactionId is set iff the status is
\* completed or refunded, failureReason iff it is failed, completedAt iff it is
\* completed or refunded.
C7_PaymentFields ==
  \A id \in 1..Len(payments) :
    LET p == payments[id]
    IN  /\ p.transactionId # Null <=> p.status \in {"completed", "refunded"}
        /\ p.failureReason # Null <=> p.status = "failed"
        /\ p.completedAt # Null <=> p.status \in {"completed", "refunded"}

\* a refunded payment and a failed one
C7_Witness ==
  /\ Len(payments) = 2
  /\ payments[1].status = "refunded" /\ payments[1].transactionId = "TXN"
  /\ payments[2].status = "failed" /\ payments[2].failureReason # Null

\* C8: the step that answers a create with 201 has persisted the Order as
\* pending/pending, leaves the earlier orders alone, and only puts the payment
\* trigger on the wire (no Payment of that order exists yet); every create that
\* reaches its save is answered 201; the loss of the trigger changes no Order
\* and answers nothing.
C8_CreatedBeforePayment ==
  [][/\ (out'.op = "create" /\ out'.code = 201) =>
          /\ Len(orders') = Len(orders) + 1
          /\ out'.id = Len(orders')
          /\ SubSeq(orders', 1, Len(orders)) = orders
          /\ orders'[out'.id].status = "pending"
          /\ orders'[out'.id].paymentStatus = "pending"
          /\ PaymentRequest(out'.id, orders'[out'.id].totalAmount,
                            orders'[out'.id].userId) \in triggers'
          /\ payments' = payments
          /\ \A p \in 1..Len(payments) : payments[p].orderId # out'.id
     /\ (create.pc = "save" /\ create' # create) => (out'.op = "create" /\ out'.code = 201)
     /\ (triggers' # triggers /\ triggers' \subseteq triggers /\ payments' = payments) =>
          (orders' = orders /\ out' = NoOut)
    ]_vars

\* the trigger was lost: the order is there, pending/pending, with no payment
C8_Witness ==
  /\ Len(orders) = 1 /\ triggers = {} /\ payments = <<>>
  /\ orders[1].status = "pending" /\ orders[1].paymentStatus = "pending"
  /\ out = NoOut /\ create = IdleCreate

\* C9: whatever an existing order's status is, a status update to any status is
\* answered 200 and sets it; the step of a successful status update changes
\* nothing else of the order and emits exactly one order_update notification,
\* to the order's owner, naming the new status.
C9_StatusOverwrite ==
  /\ [](\A id \in 1..Len(orders), status \in OrderStatusEnum :
          ENABLED (UpdateOrderStatus(id, status)
                     /\ out'.code = 200 /\ orders'[id].status = status))
  /\ [][out'.op = "status" /\ out'.code = 200 =>
          /\ OrderExists(out'.id)
          /\ out'.notif = <<[userId |-> orders[out'.id].userId, type |-> "order_update",
                             orderId |-> out'.id, names |-> orders'[out'.id].status]>>
          /\ orders' = [orders EXCEPT ![out'.id].status = orders'[out'.id].status]
       ]_vars

\* a completed order of u2 was put back to pending
C9_Witness ==
  /\ out.op = "status" /\ out.code = 200 /\ out.id = 1
  /\ out.notif[1].names = "pending" /\ out.notif[1].userId = "u2"
  /\ orders[1].status = "pending" /\ orders[1].paymentStatus = "refunded"

\* C10: a step that sets an order's paymentStatus to failed or refunded changes
\* nothing else of any order, starts no save of a confirmed status and emits no
\* notification; no answer of the payment endpoint that emits no notification
\* comes with a change of status, items or total.
C10_OnlyPaymentStatus ==
  [][/\ \A id \in 1..Len(orders) :
          (orders'[id].paymentStatus \in {"failed", "refunded"}
             /\ orders'[id].paymentStatus # orders[id].paymentStatus) =>
            /\ orders' = [orders EXCEPT ![id].paymentStatus = orders'[id].paymentStatus]
            /\ UNCHANGED <<confirming, cancelling>>
            /\ out'.notif = <<>>
     /\ (out'.op \in {"payment", "refund"} /\ out'.notif = <<>>) =>
          \A id \in 1..Len(orders) :
            /\ orders'[id].status = orders[id].status
            /\ orders'[id].items = orders[id].items
            /\ orders'[id].totalAmount = orders[id].totalAmount
    ]_vars

\* a refund callback reached an order that is ready
C10_Witness ==
  /\ out = Reply("refund", 1, 200)
  /\ orders[1].paymentStatus = "refunded" /\ orders[1].status = "ready"

\* C11 (as claimed): when the status callback is over (delivered or failed),
\* the Payment keeps the status it was given, and the refund of a completed
\* Payment answers 200 whatever became of its callback, so that a refund is
\* answered an error only for an unknown or a not completed Payment.
C11_CallbackFailureSwallowed ==
  [][\A id \in 1..Len(payments) :
       /\ (CallbackInFlight(id) /\ timer'[id] = "done") => payments' = payments
       /\ refundCb'[id] < refundCb[id] =>
            (payments' = payments /\ out' = Reply("refund", id, 200))
    ]_vars

\* C12: the settlement of a Payment puts its callback on the wire in the very
\* step that persists the resolved status, and only then; the callback carries
\* that status; once it is delivered or has failed it is over for good (the
\* timer is never armed again, nothing is sent a second time); its end touches
\* nothing but the paymentStatus of the Payment's order, set to the status it
\* carries.
C12_CallbackAtMostOnce ==
  [][\A id \in 1..MaxPayments :
       /\ timer[id] = "idle" => timer'[id] \in {"idle", "armed"}
       /\ timer[id] = "armed" => timer'[id] \in {"armed", "completed", "failed"}
       /\ timer[id] \in {"completed", "failed"} => timer'[id] \in {timer[id], "done"}
       /\ timer[id] = "done" => timer'[id] = "done"
       /\ PaymentExists(id) =>
            /\ (payments[id].status = "processing" /\ payments'[id].status # "processing")
                 <=> (timer[id] = "armed" /\ timer'[id] # "armed")
            /\ (timer[id] = "armed" /\ timer'[id] # "armed") =>
                 timer'[id] = payments'[id].status
            /\ (CallbackInFlight(id) /\ timer'[id] = "done") =>
                 /\ payments' = payments
                 /\ \/ orders' = orders
                    \/ /\ OrderExists(payments[id].orderId)
                       /\ orders' = [orders EXCEPT
                                       ![payments[id].orderId].paymentStatus = timer[id]]
    ]_vars

\* the callback of a completed payment failed and was not sent again: the
\* order still has paymentStatus pending
C12_Witness ==
  /\ Len(payments) = 1 /\ Len(orders) = 1
  /\ payments[1].status = "completed" /\ timer[1] = "done"
  /\ orders[1].paymentStatus = "pending" /\ orders[1].status = "pending"
  /\ out = NoOut

\* C13 (as claimed): no two Payments that are not refunded name the same order.
C13_OneActivePaymentPerOrder ==
  \A i, j \in 1..Len(payments) :
    (i # j /\ payments[i].orderId = payments[j].orderId) =>
      (payments[i].status = "refunded" \/ payments[j].status = "refunded")

\* C14 (as claimed): whatever the operation, a step that makes an order
\* cancelled finds it pending or confirmed.
C14_CancelledOnlyFromEarly ==
  [][\A id \in 1..Len(orders) :
       (orders'[id].status = "cancelled" /\ orders[id].status # "cancelled") =>
         orders[id].status \in {"pending", "confirmed"}
    ]_vars

\* C16 (as claimed): the save of a cancel request never writes cancelled over
\* a status that is preparing, ready or completed at the moment of the write.
C16_CancelKeepsLaterStatus ==
  [][\A id \in 1..Len(orders) :
       cancelling'[id] < cancelling[id] =>
         ~(orders[id].status \in {"preparing", "ready", "completed"}
             /\ orders'[id].status = "cancelled")
    ]_vars

\* C17 (as claimed): the payment callback's write of confirmed never lands on
\* an order that is cancelled, preparing, ready or completed at that moment.
C17_ConfirmOnlyFromPending ==
  [][\A id \in 1..Len(orders) :
       confirming'[id] < confirming[id] =>
         ~(orders[id].status \in {"cancelled", "preparing", "ready", "completed"}
             /\ orders'[id].status = "confirmed")
    ]_vars

\* C18 (as claimed): a refund request saves the Payment as refunded and sends
\* its callback only on a Payment that is completed at that moment, so that of
\* any number of requests on a Payment one at most does, and one callback at
\* most is sent.
C18_OneRefundSucceeds ==
  [][\A id \in 1..Len(payments) :
       refundCb'[id] > refundCb[id] => payments[id].status = "completed"]_vars

\* the line items of the order of 2 x 2.99 and 1 x 4.49
TraceItems == <<[productId |-> 1, quantity |-> 2, price |-> 299],
                [productId |-> 2, quantity |-> 1, price |-> 449]>>

\* C15: with one request at a time: the create of 2 x 2.99 and 1 x 4.49 is
\* answered 201 with an order of total 10.47, pending/pending; a callback
\* reporting completed on the pending/pending order writes paymentStatus
\* completed and ends, answered 200, with status confirmed and paymentStatus
\* completed; a status update to preparing on the confirmed order sets
\* preparing and leaves paymentStatus; a cancel on the preparing order is
\* answered 400 and the order stays as it is.
C15_EndToEnd ==
  [][/\ (out'.op = "create" /\ out'.code = 201) =>
          /\ Len(orders') = 1
          /\ orders'[1] = NewOrder(orders'[1].userId, TraceItems, 1047)
     /\ \A id \in 1..Len(orders) :
          /\ (orders[id].status = "pending" /\ orders[id].paymentStatus = "pending"
                /\ confirming'[id] > confirming[id]) =>
               orders' = [orders EXCEPT ![id].paymentStatus = "completed"]
          /\ confirming'[id] < confirming[id] =>
               /\ orders[id].status = "pending" /\ orders[id].paymentStatus = "completed"
               /\ orders' = [orders EXCEPT ![id].status = "confirmed"]
               /\ out'.op = "payment" /\ out'.code = 200
          /\ (orders[id].status = "confirmed" /\ out'.op = "status" /\ out'.id = id
                /\ out'.code = 200 /\ out'.notif[1].names = "preparing") =>
               orders' = [orders EXCEPT ![id].status = "preparing"]
          /\ (orders[id].status = "preparing" /\ out'.op = "cancel" /\ out'.id = id) =>
               /\ out'.code = 400
               /\ orders' = orders
    ]_vars

\* the end of the trace: the cancel was refused on the order of 10.47, which
\* is preparing and paid
C15_Witness ==
  /\ out = Fail("cancel", 1, 400, "Cannot cancel order in current status")
  /\ Len(orders) = 1
  /\ orders[1] = [NewOrder("u1", TraceItems, 1047) EXCEPT
                    !.status = "preparing", !.paymentStatus = "completed"]

\* the steps of paymentStatus that the order state machine has
PaymentStatusStep(from, to) ==
  \/ to = from
  \/ <<from, to>> \in {<<"pending", "completed">>, <<"pending", "failed">>,
                       <<"completed", "refunded">>}

\* C19 (as claimed): with the payment service's callbacks alone, all of them
\* delivered, an order's paymentStatus moves only pending -> completed,
\* pending -> failed, completed -> refunded; and once no callback of a Payment
\* is left on the wire, the order's paymentStatus is the Payment's status.
C19_PaymentStatusPath ==
  /\ [][\A id \in 1..Len(orders) :
          PaymentStatusStep(orders[id].paymentStatus, orders'[id].paymentStatus)]_vars
  /\ [](\A p \in 1..Len(payments) :
          (timer[p] = "done" /\ refunding[p] = 0 /\ refundCb[p] = 0
             /\ OrderExists(payments[p].orderId)) =>
            orders[payments[p].orderId].paymentStatus = payments[p].status)

\* C20: when every message arrives and nobody else touches the order, every
\* created order comes to have paymentStatus completed or failed and keeps it;
\* one whose paymentStatus is completed comes to be confirmed and stays so; the
\* status is never anything but pending or confirmed, confirmed only with
\* paymentStatus completed, and pending whenever paymentStatus is failed.
C20_ChoreographyCompletes ==
  /\ \A id \in OrderIds :
       /\ OrderExists(id) ~>
            (OrderExists(id) /\ orders[id].paymentStatus \in {"completed", "failed"})
       /\ (OrderExists(id) /\ orders[id].paymentStatus = "completed") ~>
            (OrderExists(id) /\ orders[id].status = "confirmed")
  /\ [](\A id \in 1..Len(orders) :
          /\ orders[id].status \in {"pending", "confirmed"}
          /\ orders[id].status = "confirmed" => orders[id].paymentStatus = "completed"
          /\ orders[id].paymentStatus = "failed" => orders[id].status = "pending")
  /\ [][\A id \in 1..Len(orders) :
          /\ orders[id].paymentStatus \in {"completed", "failed"} =>
               orders'[id].paymentStatus = orders[id].paymentStatus
          /\ orders[id].status = "confirmed" => orders'[id].status = "confirmed"]_vars

\* the order was paid and confirmed, and nothing is left to do
C20_Witness ==
  /\ Len(orders) = 1 /\ Len(payments) = 1
  /\ payments[1].status = "completed" /\ timer[1] = "done"
  /\ orders[1].paymentStatus = "completed" /\ orders[1].status = "confirmed"
  /\ confirming[1] = 0 /\ triggers = {}

\* the steps of a Payment's status that the payment life cycle has
PaymentLifeStep(from, to) ==
  \/ to = from
  \/ <<from, to>> \in {<<"processing", "completed">>, <<"processing", "failed">>,
                       <<"completed", "refunded">>}

\* C21: no step removes a Payment or changes anything of it but along
\* processing -> completed, processing -> failed, completed -> refunded; every
\* Payment is created processing; failed and refunded are never left.
C21_PaymentLifeCycle ==
  /\ [](\A id \in 1..Len(payments) :
          payments[id].status \in {"processing", "completed", "failed", "refunded"})
  /\ [][/\ Len(payments') >= Len(payments)
        /\ \A id \in 1..Len(payments) :
             PaymentLifeStep(payments[id].status, payments'[id].status)
        /\ \A id \in (Len(payments) + 1)..Len(payments') :
             payments'[id].status = "processing"
       ]_vars

\* a refund of a failed payment was refused next to a refunded payment, both
\* timers long over
C21_Witness ==
  /\ Len(payments) = 2
  /\ payments[1].status = "refunded" /\ timer[1] = "done"
  /\ payments[2].status = "failed" /\ timer[2] = "done"
  /\ out = Fail("refund", 2, 400, "Can only refund completed payments")

\* the Payments made for an order
PaymentsOf(id) == {p \in 1..Len(payments) : payments[p].orderId = id}

\* C22: with the payment service's callbacks alone, an order shows
\* paymentStatus completed, failed or refunded only when a Payment of that
\* order is stored with a status that includes it (failed for failed, completed
\* or refunded for completed, refunded for refunded), never while it is still
\* processing; and the step that delivers a settlement callback finds the
\* Payment stored as resolved.
C22_PersistedBeforeCallback ==
  /\ [](\A id \in 1..Len(orders) :
          /\ orders[id].paymentStatus = "failed" =>
               \E p \in PaymentsOf(id) : payments[p].status = "failed"
          /\ orders[id].paymentStatus = "completed" =>
               \E p \in PaymentsOf(id) : payments[p].status \in {"completed", "refunded"}
          /\ orders[id].paymentStatus = "refunded" =>
               \E p \in PaymentsOf(id) : payments[p].status = "refunded")
  /\ [][\A p \in 1..Len(payments) :
          (CallbackInFlight(p) /\ timer'[p] = "done") =>
            /\ payments[p].status # "processing"
            /\ payments[p].status \in {timer[p], "refunded"}]_vars

\* the callback of a failed payment was delivered
C22_Witness ==
  /\ Len(orders) = 1 /\ Len(payments) = 1
  /\ orders[1].paymentStatus = "failed"
  /\ payments[1].status = "failed" /\ payments[1].orderId = 1
  /\ timer[1] = "done"

\* the step emits a payment_success notification about order id
EmitsPaymentSuccess(id) ==
  \E n \in 1..Len(out'.notif) :
    out'.notif[n].type = "payment_success" /\ out'.notif[n].orderId = id

\* C23 (as claimed): a step emits a payment_success notification about an
\* order exactly when it is a step of the payment callback that takes the
\* order from pending to confirmed, and the notification goes to the owner.
C23_SuccessNotificationIffConfirmed ==
  [][\A id \in 1..Len(orders) :
       /\ EmitsPaymentSuccess(id) <=>
            (out'.op = "payment" /\ out'.id = id
               /\ orders[id].status = "pending" /\ orders'[id].status = "confirmed")
       /\ EmitsPaymentSuccess(id) => out'.notif = <<PaymentNotification(orders[id], id)>>
    ]_vars

\* C24 (as claimed): the step in which the order service answers a callback
\* that reported failed emits a notification about the failed payment to the
\* order's owner.
C24_FailedPaymentNotified ==
  [][\A id \in 1..Len(orders) :
       (out'.op = "payment" /\ out'.id = id /\ out'.code = 200
          /\ orders'[id].paymentStatus = "failed"
          /\ orders[id].paymentStatus # "failed") =>
         \E n \in 1..Len(out'.notif) :
           /\ out'.notif[n].userId = orders[id].userId
           /\ out'.notif[n].type = "payment_failed"
           /\ out'.notif[n].orderId = id
    ]_vars

\* the payment triggers on the wire and the Payments already made that name
\* order id
TriggersOf(id) == {body \in triggers : body.orderId = id}

\* C25: a payment trigger goes on the wire only in the step that persists an
\* Order, one for that order and no other, naming its id, its owner and its
\* total; every step that persists an Order sends it; so every trigger on the
\* wire and every Payment made from one names a persisted Order, its owner and
\* its total, and no order has more than one of them.
C25_OneTriggerPerOrder ==
  /\ [][/\ triggers' \ triggers # {} =>
             /\ Len(orders') = Len(orders) + 1
             /\ triggers' \ triggers =
                  {[orderId |-> Len(orders'), amount |-> orders'[Len(orders')].totalAmount,
                    userId |-> orders'[Len(orders')].userId]}
        /\ Len(orders') > Len(orders) =>
             \E body \in triggers' \ triggers : body.orderId = Len(orders')
       ]_vars
  /\ [](/\ \A body \in triggers :
             /\ OrderExists(body.orderId)
             /\ body.amount = orders[body.orderId].totalAmount
             /\ body.userId = orders[body.orderId].userId
        /\ \A p \in 1..Len(payments) :
             /\ OrderExists(payments[p].orderId)
             /\ payments[p].amount = orders[payments[p].orderId].totalAmount
             /\ payments[p].userId = orders[payments[p].orderId].userId
        /\ \A id \in 1..Len(orders) :
             Cardinality(TriggersOf(id)) + Cardinality(PaymentsOf(id)) <= 1)

\* the trigger of an order of two items was delivered: its Payment carries the
\* order's owner and total
C25_Witness ==
  /\ Len(orders) = 1 /\ Len(orders[1].items) = 2 /\ orders[1].userId = "u2"
  /\ triggers = {}
  /\ Len(payments) = 1
  /\ payments[1] = NewPayment([orderId |-> 1, amount |-> SumItems(orders[1].items),
                               userId |-> "u2"])
  /\ payments[1].amount > 0

NotFound(op, id) == Fail(op, id, 404, "Order not found")

C27_StatusWithinEnum ==
  \A id \in 1..Len(orders) :
    /\ orders[id].status \in OrderStatusEnum
    /\ orders[id].paymentStatus \in PaymentStatusEnum

\* C28: the step that answers a cancel with 200 changes the status of that
\* order and nothing else: not its paymentStatus, items or total, no Payment,
\* no timer, no refund, no trigger on the wire; a Payment whose timer is armed
\* can settle whatever the order's status; and the step in which a callback
\* reporting completed reaches an order that is cancelled sets paymentStatus
\* to completed, leaves the status cancelled and starts no confirmation.
C28_CancelFrame ==
  /\ [][\A id \in 1..Len(orders) :
          /\ (out' = Reply("cancel", id, 200) /\ cancelling'[id] < cancelling[id]) =>
               /\ orders' = [orders EXCEPT ![id].status = "cancelled"]
               /\ UNCHANGED <<payments, timer, refunding, refundCb, triggers,
                              confirming, catalog>>
          /\ (orders[id].status = "cancelled" /\ out'.op = "payment" /\ out'.id = id
                /\ orders'[id].paymentStatus = "completed"
                /\ orders[id].paymentStatus # "completed") =>
               /\ orders' = [orders EXCEPT ![id].paymentStatus = "completed"]
               /\ out' = Reply("payment", id, 200)
               /\ UNCHANGED confirming]_vars
  /\ [](\A p \in 1..Len(payments) :
          timer[p] = "armed" =>
            \A isSuccess \in BOOLEAN :
              ENABLED (Settle(p, isSuccess)
                         /\ payments'[p].status = IF isSuccess THEN "completed" ELSE "failed"))

\* the payment of a cancelled order settled as completed and its callback was
\* delivered: the order is cancelled and paid
C28_Witness ==
  /\ Len(orders) = 1 /\ Len(payments) = 1
  /\ orders[1].status = "cancelled" /\ orders[1].paymentStatus = "completed"
  /\ payments[1].status = "completed" /\ timer[1] = "done"
  /\ out = Reply("payment", 1, 200)
  /\ confirming[1] = 0 /\ cancelling[1] = 0

====
